---- MODULE Spec2Model ----
(***************************************************************************)
(* SWCanvas pixel primitives: BitBuffer (packed 1-bit-per-pixel storage),  *)
(* ClipMask (visibility mask owning one BitBuffer) and Color (immutable    *)
(* premultiplied RGBA).  Objects are records named after the JavaScript    *)
(* fields; methods are operators named Class_method.                       *)
(***************************************************************************)
EXTENDS Integers, Sequences, FiniteSets, TLC

VARIABLES
    bb,      \* heap of BitBuffer objects: reference (1..2) -> BitBuffer record
    cm,      \* the ClipMask objects (empty when the program uses bare BitBuffers)
    last,    \* the observed call on the bit objects: its arguments and outcome
    linked,  \* TRUE once one ClipMask has been produced by clone() of the other
    cur,     \* the Color the program holds
    nops,    \* how many Color calls produced cur
    clast,   \* the observed Color / ColorParser call: arguments and outcome
    cache    \* ColorParser._cache: the inputs parsed so far -> their results

bitVars == <<bb, cm, last, linked>>
colorVars == <<cur, nops, clast>>
vars == <<bb, cm, last, linked, cur, nops, clast, cache>>

-----------------------------------------------------------------------------
(* Bounds of the model *)

MaxW == 4
MaxH == 3
MaxPixels == 9
MaxPairPixels == 8
MaxOps == 2
MaxCached == 1

(* Program constants *)

BitsPerByte == 8
ByteFull == 255
ComponentMax == 255

-----------------------------------------------------------------------------
(* Bitwise arithmetic on the bytes of a Uint8Array (integers 0..255) *)

\* 1 << k
Shl1(k) == 2 ^ k

\* (byte & (1 << k)) !== 0 ? 1 : 0
BitOf(byte, k) == (byte \div Shl1(k)) % 2

RECURSIVE BitAndFrom(_, _, _)
BitAndFrom(a, b, k) ==
    IF k = BitsPerByte THEN 0
    ELSE Shl1(k) * (BitOf(a, k) * BitOf(b, k)) + BitAndFrom(a, b, k + 1)

\* a & b on bytes
BitAnd(a, b) == BitAndFrom(a, b, 0)

RECURSIVE BitOrFrom(_, _, _)
BitOrFrom(a, b, k) ==
    IF k = BitsPerByte THEN 0
    ELSE Shl1(k) * (IF BitOf(a, k) + BitOf(b, k) > 0 THEN 1 ELSE 0)
         + BitOrFrom(a, b, k + 1)

\* a | b on bytes
BitOr(a, b) == BitOrFrom(a, b, 0)

\* ~m, as far as a store into a Uint8Array keeps it (the low 8 bits)
BitNot(m) == ByteFull - m

\* Math.ceil(n / 8) for n >= 0
CeilDiv(n, d) == (n + d - 1) \div d

-----------------------------------------------------------------------------
(* BitBuffer *)

\* Uint8Array.prototype.fill(value): indices 0 .. length-1
Uint8Fill(buffer, value) == [i \in DOMAIN buffer |-> value]

\* Mutant: the partial last byte is left at 0xFF
BitBuffer__initializeToDefault_noMask(this) ==
    IF this._defaultValue = 1
    THEN [this EXCEPT !._buffer = Uint8Fill(this._buffer, ByteFull)]
    ELSE [this EXCEPT !._buffer = Uint8Fill(this._buffer, 0)]

BitBuffer__initializeToDefault(this) ==
    IF this._defaultValue = 1
    THEN LET filled == Uint8Fill(this._buffer, ByteFull)
             remainderBits == this._numPixels % BitsPerByte
         IN  IF remainderBits # 0
             THEN LET lastByteIndex == this._numBytes - 1
                      lastByteMask == Shl1(remainderBits) - 1
                  IN  [this EXCEPT !._buffer =
                          [filled EXCEPT ![lastByteIndex] = lastByteMask]]
             ELSE [this EXCEPT !._buffer = filled]
    ELSE [this EXCEPT !._buffer = Uint8Fill(this._buffer, 0)]

\* Mutant: the arguments are not tested for being integers
BitBuffer_constructorError_anyNumber(width, height, defaultValue) ==
    IF width[1] <= 0 THEN "BitBuffer width must be a positive integer"
    ELSE IF height[1] <= 0 THEN "BitBuffer height must be a positive integer"
    ELSE IF defaultValue[1] # 0 /\ defaultValue[1] # defaultValue[2]
         THEN "BitBuffer defaultValue must be 0 or 1"
    ELSE ""

\* The constructor's validation of its arguments, numbers given as fractions
\* <<n, d>> (typeof is 'number' for each): the message thrown, "" when none is
BitBuffer_constructorError(width, height, defaultValue) ==
    IF (width[1] % width[2] # 0) \/ width[1] <= 0
    THEN "BitBuffer width must be a positive integer"
    ELSE IF (height[1] % height[2] # 0) \/ height[1] <= 0
    THEN "BitBuffer height must be a positive integer"
    ELSE IF defaultValue[1] # 0 /\ defaultValue[1] # defaultValue[2]
    THEN "BitBuffer defaultValue must be 0 or 1"
    ELSE ""

\* new BitBuffer(width, height, defaultValue), for arguments that pass validation
BitBuffer_new(width, height, defaultValue) ==
    LET numPixels == width * height
        numBytes == CeilDiv(numPixels, BitsPerByte)
    IN  BitBuffer__initializeToDefault(
            [_width |-> width, _height |-> height,
             _numPixels |-> numPixels, _numBytes |-> numBytes,
             _defaultValue |-> defaultValue,
             _buffer |-> [i \in 0 .. numBytes - 1 |-> 0]])

BitBuffer__getBit(this, pixelIndex) ==
    LET byteIndex == pixelIndex \div BitsPerByte
        bitIndex == pixelIndex % BitsPerByte
    IN  IF byteIndex >= this._numBytes THEN 0
        ELSE BitOf(this._buffer[byteIndex], bitIndex)

\* Mutant: the mask is assigned to the byte, not OR-ed / AND-ed into it
BitBuffer__setBit_assign(this, pixelIndex, value) ==
    LET byteIndex == pixelIndex \div BitsPerByte
        bitIndex == pixelIndex % BitsPerByte
    IN  IF byteIndex >= this._numBytes THEN this
        ELSE IF value = 1
        THEN [this EXCEPT !._buffer[byteIndex] = Shl1(bitIndex)]
        ELSE [this EXCEPT !._buffer[byteIndex] = BitNot(Shl1(bitIndex))]

BitBuffer__setBit(this, pixelIndex, value) ==
    LET byteIndex == pixelIndex \div BitsPerByte
        bitIndex == pixelIndex % BitsPerByte
    IN  IF byteIndex >= this._numBytes THEN this
        ELSE IF value = 1
        THEN [this EXCEPT !._buffer[byteIndex] = BitOr(@, Shl1(bitIndex))]
        ELSE [this EXCEPT !._buffer[byteIndex] = BitAnd(@, BitNot(Shl1(bitIndex)))]

BitBuffer_getPixel(this, x, y) ==
    IF x < 0 \/ x >= this._width \/ y < 0 \/ y >= this._height THEN FALSE
    ELSE BitBuffer__getBit(this, y * this._width + x) = 1

\* Mutant: the right edge is not checked
BitBuffer_setPixel_noRightEdge(this, x, y, value) ==
    IF x < 0 \/ y < 0 \/ y >= this._height THEN this
    ELSE BitBuffer__setBit(this, y * this._width + x, IF value THEN 1 ELSE 0)

BitBuffer_setPixel(this, x, y, value) ==
    IF x < 0 \/ x >= this._width \/ y < 0 \/ y >= this._height THEN this
    ELSE BitBuffer__setBit(this, y * this._width + x, IF value THEN 1 ELSE 0)

BitBuffer_clear(this) == [this EXCEPT !._buffer = Uint8Fill(this._buffer, 0)]

\* Mutant: fill() without the partial-last-byte fix
BitBuffer_fill_noMask(this) ==
    [this EXCEPT !._buffer = Uint8Fill(this._buffer, ByteFull)]

BitBuffer_fill(this) ==
    LET filled == Uint8Fill(this._buffer, ByteFull)
        remainderBits == this._numPixels % BitsPerByte
    IN  IF remainderBits # 0
        THEN LET lastByteIndex == this._numBytes - 1
                 lastByteMask == Shl1(remainderBits) - 1
             IN  [this EXCEPT !._buffer =
                     [filled EXCEPT ![lastByteIndex] = lastByteMask]]
        ELSE [this EXCEPT !._buffer = filled]

\* Mutant: reset() clears, whatever the default value
BitBuffer_reset_clears(this) == BitBuffer_clear(this)

BitBuffer_reset(this) == BitBuffer__initializeToDefault(this)

\* Mutant: the pixel counts are compared, not the widths and heights
BitBuffer_dimensionsDiffer_byCount(this, other) ==
    other._numPixels # this._numPixels

\* The dimension check shared by and() and copyFrom(): TRUE when the call throws
BitBuffer_dimensionsDiffer(this, other) ==
    other._width # this._width \/ other._height # this._height

\* Mutant: the receiver's bytes are replaced by the argument's
BitBuffer_and_assigns(this, other) ==
    IF BitBuffer_dimensionsDiffer(this, other)
    THEN [error |-> "BitBuffer dimensions must match for AND operation",
          this |-> this]
    ELSE [error |-> "",
          this |-> [this EXCEPT !._buffer =
                       [i \in 0 .. this._numBytes - 1 |-> other._buffer[i]]]]

\* Mutant: |= in place of &=
BitBuffer_and_usingOr(this, other) ==
    IF BitBuffer_dimensionsDiffer(this, other)
    THEN [error |-> "BitBuffer dimensions must match for AND operation",
          this |-> this]
    ELSE [error |-> "",
          this |-> [this EXCEPT !._buffer =
                       [i \in 0 .. this._numBytes - 1 |->
                           BitOr(this._buffer[i], other._buffer[i])]]]

\* and(other): the message thrown ("" when none) and the receiver afterwards
BitBuffer_and(this, other) ==
    IF BitBuffer_dimensionsDiffer(this, other)
    THEN [error |-> "BitBuffer dimensions must match for AND operation",
          this |-> this]
    ELSE [error |-> "",
          this |-> [this EXCEPT !._buffer =
                       [i \in 0 .. this._numBytes - 1 |->
                           BitAnd(this._buffer[i], other._buffer[i])]]]

\* copyFrom(other): the message thrown ("" when none) and the receiver afterwards
BitBuffer_copyFrom(this, other) ==
    IF BitBuffer_dimensionsDiffer(this, other)
    THEN [error |-> "BitBuffer dimensions must match for copy operation",
          this |-> this]
    ELSE [error |-> "",
          this |-> [this EXCEPT !._buffer =
                       [i \in DOMAIN this._buffer |-> other._buffer[i]]]]

\* Mutant: every byte is compared with 0xFF, the partial last one too
BitBuffer_isFull_wholeBytes(this) ==
    \A i \in 0 .. this._numBytes - 1 : this._buffer[i] = ByteFull

BitBuffer_isFull(this) ==
    /\ \A i \in 0 .. this._numBytes - 2 : this._buffer[i] = ByteFull
    /\ LET remainderBits == this._numPixels % BitsPerByte
       IN  IF remainderBits = 0
           THEN this._buffer[this._numBytes - 1] = ByteFull
           ELSE this._buffer[this._numBytes - 1] = Shl1(remainderBits) - 1

BitBuffer_isEmpty(this) ==
    \A i \in 0 .. this._numBytes - 1 : this._buffer[i] = 0

BitBuffer_equals(this, other) ==
    /\ ~ BitBuffer_dimensionsDiffer(this, other)
    /\ \A i \in 0 .. this._numBytes - 1 : this._buffer[i] = other._buffer[i]

-----------------------------------------------------------------------------
(* JavaScript numbers as exact fractions <<n, d>>, d > 0.  On the integers    *)
(* 0..255 and the factors used here no double operation of Color rounds to a *)
(* different integer than the exact value does; the products of the          *)
(* constructor that do, on multiples of 0.5, are listed in ShortProducts.    *)

Num(k) == <<k, 1>>
NumLt(p, q) == p[1] * q[2] < q[1] * p[2]
NumGt(p, q) == NumLt(q, p)
NumAdd(p, q) == <<p[1] * q[2] + q[1] * p[2], p[2] * q[2]>>
NumSub(p, q) == <<p[1] * q[2] - q[1] * p[2], p[2] * q[2]>>
NumMul(p, q) == <<p[1] * q[1], p[2] * q[2]>>
\* p / k for an integer k > 0
NumDivInt(p, k) == <<p[1], p[2] * k>>

NumEq(p, q) == p[1] * q[2] = q[1] * p[2]

\* The integer an integral number is
NumInt(p) == p[1] \div p[2]

\* Mutant: Math.trunc in place of Math.round
Math_round_truncates(p) == p[1] \div p[2]

\* Math.round: the nearest integer, halves towards +Infinity
Math_round(p) == (2 * p[1] + p[2]) \div (2 * p[2])

\* The pairs <<2r, 2a>>, r and a multiples of 0.5 in 0..255, for which the
\* binary64 value of r * (a / 255) is below the exact r*a/255 although that is
\* k + 0.5 for an integer k: a / 255 is rounded down and the product stays
\* below the half.  For every other such pair Math.round of the binary64
\* product is Math.round of the exact one.
ShortProducts ==
    {<<51, 310>>, <<75, 374>>, <<85, 294>>, <<85, 342>>, <<90, 357>>,
     <<102, 155>>, <<150, 187>>, <<153, 310>>, <<153, 390>>, <<165, 374>>,
     <<170, 147>>, <<170, 171>>, <<170, 309>>, <<170, 357>>, <<285, 374>>,
     <<289, 390>>, <<306, 155>>, <<306, 195>>, <<315, 374>>, <<323, 390>>,
     <<330, 187>>, <<330, 357>>, <<345, 374>>, <<350, 357>>, <<357, 310>>,
     <<425, 138>>, <<425, 294>>, <<459, 130>>}

\* What the binary64 product lacks in these cases: enough to stay below the half
Shortfall == <<1, 1024>>

\* The binary64 number next below 0.5, 0.49999999999999994 = 0.5 - 2^-54,
\* stood for by 0.5 - 2^-10: like it, it lies in [0,255] and rounds to 0
BelowHalf == <<511, 1024>>

\* The triples <<r, a, product>> for which the binary64 value of r * (a / 255),
\* product, is above the exact r*a/255 and is k + 0.5 for an integer k:
\* a / 255 is rounded up and 255 * (0.49999999999999994 / 255) is 0.5
LongProducts == {<<(<<255, 1>>), BelowHalf, (<<1, 2>>)>>}

\* r * alpha as the constructor computes it, alpha = a / 255
Double_mulAlpha(r, alpha) ==
    IF \E e \in ShortProducts :
           /\ NumEq(r, <<e[1], 2>>)
           /\ NumEq(alpha, <<e[2], 2 * ComponentMax>>)
    THEN NumSub(NumMul(r, alpha), Shortfall)
    ELSE IF \E e \in LongProducts :
           /\ NumEq(r, e[1])
           /\ NumEq(alpha, NumDivInt(e[2], ComponentMax))
    THEN (CHOOSE e \in LongProducts :
              /\ NumEq(r, e[1])
              /\ NumEq(alpha, NumDivInt(e[2], ComponentMax)))[3]
    ELSE NumMul(r, alpha)

-----------------------------------------------------------------------------
(* Color: [_r, _g, _b, _a], the premultiplied components.  A call that may   *)
(* throw returns the message thrown ("" when none) beside its result.        *)

NoColor == [_r |-> 0, _g |-> 0, _b |-> 0, _a |-> 0]

\* new Color(r, g, b, a, isPremultiplied)
Color_new(r, g, b, a, isPremultiplied) ==
    IF \/ NumLt(r, Num(0)) \/ NumGt(r, Num(ComponentMax))
       \/ NumLt(g, Num(0)) \/ NumGt(g, Num(ComponentMax))
       \/ NumLt(b, Num(0)) \/ NumGt(b, Num(ComponentMax))
       \/ NumLt(a, Num(0)) \/ NumGt(a, Num(ComponentMax))
    THEN [error |-> "Color components must be in range 0-255", color |-> NoColor]
    ELSE IF isPremultiplied
    THEN [error |-> "",
          color |-> [_r |-> Math_round(r), _g |-> Math_round(g),
                     _b |-> Math_round(b), _a |-> Math_round(a)]]
    ELSE LET alpha == NumDivInt(a, ComponentMax)
         IN  [error |-> "",
              color |-> [_r |-> Math_round(Double_mulAlpha(r, alpha)),
                         _g |-> Math_round(Double_mulAlpha(g, alpha)),
                         _b |-> Math_round(Double_mulAlpha(b, alpha)),
                         _a |-> Math_round(a)]]

\* The getters r, g, b share this body, p being the stored component
Color_straight(this, p) ==
    IF this._a = 0 THEN 0
    ELSE IF this._a = ComponentMax THEN p
    ELSE Math_round(<<p * ComponentMax, this._a>>)

Color_r(this) == Color_straight(this, this._r)
Color_g(this) == Color_straight(this, this._g)
Color_b(this) == Color_straight(this, this._b)
Color_a(this) == this._a

Color_toRGBA(this) ==
    <<Color_r(this), Color_g(this), Color_b(this), Color_a(this)>>

Color_withGlobalAlpha(this, globalAlpha) ==
    IF NumLt(globalAlpha, Num(0)) \/ NumGt(globalAlpha, Num(1))
    THEN [error |-> "Global alpha must be in range 0-1", color |-> NoColor]
    ELSE LET nonPremultR == Color_r(this)
             nonPremultG == Color_g(this)
             nonPremultB == Color_b(this)
             nonPremultA == Color_a(this)
             newAlpha == Math_round(NumMul(Num(nonPremultA), globalAlpha))
         IN  Color_new(Num(nonPremultR), Num(nonPremultG), Num(nonPremultB),
                       Num(newAlpha), FALSE)

Color_blendOver(this, background) ==
    IF this._a = ComponentMax THEN [error |-> "", color |-> this]
    ELSE IF this._a = 0 THEN [error |-> "", color |-> background]
    ELSE LET srcAlpha == NumDivInt(Num(this._a), ComponentMax)
             invSrcAlpha == NumSub(Num(1), srcAlpha)
             newR == Math_round(NumAdd(Num(this._r),
                                       NumMul(Num(background._r), invSrcAlpha)))
             newG == Math_round(NumAdd(Num(this._g),
                                       NumMul(Num(background._g), invSrcAlpha)))
             newB == Math_round(NumAdd(Num(this._b),
                                       NumMul(Num(background._b), invSrcAlpha)))
             newA == Math_round(NumAdd(Num(this._a),
                                       NumMul(Num(background._a), invSrcAlpha)))
         IN  Color_new(Num(newR), Num(newG), Num(newB), Num(newA), TRUE)

-----------------------------------------------------------------------------
(* JavaScript values that may be undefined: {} is undefined, {v} is v *)

\* obj[name], undefined when the object has no such property
JsProp(obj, name) == IF name \in DOMAIN obj THEN {obj[name]} ELSE {}

\* x >= p: false when p is undefined (the comparison is made with NaN)
JsGe(x, p) == \E v \in p : x >= v

\* Mutant: coverage >= 0.5
CoverageInside_orEqual(q) == 2 * q >= 4

\* coverage > 0.5, the coverage given in quarters (q stands for q / 4)
CoverageInside(q) == 2 * q > 4

-----------------------------------------------------------------------------
(* ClipMask: methods take the BitBuffer heap and return the heap afterwards *)

\* new ClipMask(width, height), its BitBuffer allocated at reference ref
ClipMask_new(heap, ref, width, height) ==
    [heap |-> [heap EXCEPT ![ref] = BitBuffer_new(width, height, 1)],
     mask |-> [width |-> width, height |-> height, _bitBuffer |-> ref]]

ClipMask_getPixel(heap, this, x, y) ==
    BitBuffer_getPixel(heap[this._bitBuffer], x, y)

ClipMask_setPixel(heap, this, x, y, visible) ==
    [heap EXCEPT ![this._bitBuffer] = BitBuffer_setPixel(@, x, y, visible)]

\* Mutant: clear() forwards to the storage's clear() instead of fill()
ClipMask_clear_forwardsClear(heap, this) ==
    [heap EXCEPT ![this._bitBuffer] = BitBuffer_clear(@)]

ClipMask_clear(heap, this) ==
    [heap EXCEPT ![this._bitBuffer] = BitBuffer_fill(@)]

ClipMask_clipAll(heap, this) ==
    [heap EXCEPT ![this._bitBuffer] = BitBuffer_clear(@)]

ClipMask_intersectWith(heap, this, other) ==
    LET r == BitBuffer_and(heap[this._bitBuffer], heap[other._bitBuffer])
    IN  [error |-> r.error,
         heap |-> [heap EXCEPT ![this._bitBuffer] = r.this]]

\* Mutant: the clone keeps the original's BitBuffer (a shallow copy)
ClipMask_clone_shared(heap, this, fresh) ==
    [heap |-> heap,
     mask |-> [width |-> this.width, height |-> this.height,
               _bitBuffer |-> this._bitBuffer]]

\* clone(): the new mask's BitBuffer is allocated at the unused reference fresh
ClipMask_clone(heap, this, fresh) ==
    LET made == ClipMask_new(heap, fresh, this.width, this.height)
        copied == BitBuffer_copyFrom(made.heap[made.mask._bitBuffer],
                                     made.heap[this._bitBuffer])
    IN  [heap |-> [made.heap EXCEPT ![made.mask._bitBuffer] = copied.this],
         mask |-> made.mask]

\* The function createPixelWriter() returns, applied to (x, y, coverage)
ClipMask_pixelWriter(heap, this, x, y, coverage) ==
    IF \/ x < 0
       \/ JsGe(x, JsProp(this, "_width"))
       \/ y < 0
       \/ JsGe(y, JsProp(this, "_height"))
    THEN heap
    ELSE ClipMask_setPixel(heap, this, x, y, CoverageInside(coverage))

ClipMask_hasClipping(heap, this) == ~ BitBuffer_isFull(heap[this._bitBuffer])

-----------------------------------------------------------------------------
(* The program: two bit objects, either bare BitBuffers or ClipMasks *)

Refs == 1 .. 2

MaskMode == Len(cm) > 0

\* The BitBuffer behind object i, in a given heap and mask table
StorageOf(heap, masks, i) ==
    IF Len(masks) > 0 THEN heap[masks[i]._bitBuffer] ELSE heap[i]

Storage(i) == StorageOf(bb, cm, i)

\* The second object is written only in pairs of at most MaxPairPixels pixels;
\* in larger pairs it stays as constructed (an all-ones or all-zeros operand).
Mutable(i) ==
    i = 1 \/ Storage(1)._numPixels + Storage(2)._numPixels <= MaxPairPixels

\* Coordinates passed by callers: every in-range pixel and one probe past each edge
ProbeCoords(this) ==
    {<<x, y>> : x \in 0 .. this._width - 1, y \in 0 .. this._height - 1}
    \cup {<<-1, this._height - 1>>, <<this._width, 0>>,
          <<0, -1>>, <<0, this._height>>}

\* Coverage values passed to the pixel writer, in quarters: 0.25, 0.5, 0.75
CoverageQuarters == 1 .. 3

(***************************************************************************)
(* A run is any sequence of calls, of which the final one is observed:     *)
(* last records it with its arguments, whether it threw and whether it     *)
(* changed the heap.  Calls before it leave last at Unobserved, so every   *)
(* call is observed from every reachable heap.                             *)
(***************************************************************************)
NoCall ==
    [op |-> "new", self |-> 0, other |-> 0, x |-> 0, y |-> 0, v |-> FALSE,
     cov |-> 0, error |-> "", changed |-> FALSE]

Unobserved == [NoCall EXCEPT !.op = "unobserved"]

Running == last.op \in {"new", "unobserved"}

\* How the second object's size relates to the first's: the same; width and
\* height exchanged (the same pixel count); one column less; one row less
PeerShapes == {"same", "swapped", "narrower", "shorter"}

InitBits ==
    \E w \in 1 .. MaxW, h \in 1 .. MaxH, peer \in PeerShapes,
       masks \in BOOLEAN, d1 \in {0, 1}, d2 \in {0, 1} :
        /\ w * h <= MaxPixels
        /\ masks => (d1 = 1 /\ d2 = 1)
        /\ LET w2 == CASE peer = "swapped" -> h
                        [] peer = "narrower" -> w - 1
                        [] OTHER -> w
               h2 == CASE peer = "swapped" -> w
                        [] peer = "shorter" -> h - 1
                        [] OTHER -> h
           IN  /\ w2 >= 1 /\ h2 >= 1
               /\ peer \in {"narrower", "shorter"} =>
                      w * h + w2 * h2 <= MaxPairPixels
               /\ bb = <<BitBuffer_new(w, h, d1), BitBuffer_new(w2, h2, d2)>>
               /\ cm = IF masks
                       THEN <<ClipMask_new(bb, 1, w, h).mask,
                              ClipMask_new(bb, 2, w2, h2).mask>>
                       ELSE << >>
        /\ last = NoCall
        /\ linked = FALSE
        /\ cur = NoColor /\ nops = 0
        /\ clast = [op |-> "none"]
        /\ cache = << >>

\* A call and the heap it leaves, observed or not
Called(observed, call, heap) ==
    /\ UNCHANGED colorVars
    /\ UNCHANGED cache
    /\ bb' = heap
    /\ last' = IF observed
               THEN [NoCall EXCEPT !.op = call.op, !.self = call.self,
                                   !.other = call.other, !.x = call.x,
                                   !.y = call.y, !.v = call.v, !.cov = call.cov,
                                   !.error = call.error, !.changed = (heap # bb)]
               ELSE Unobserved

\* The arguments of a call, unused ones left at their defaults
Call(op, self) == [NoCall EXCEPT !.op = op, !.self = self]
CallOn(op, self, other, error) ==
    [NoCall EXCEPT !.op = op, !.self = self, !.other = other, !.error = error]
CallAt(op, self, x, y, v, cov) ==
    [NoCall EXCEPT !.op = op, !.self = self, !.x = x, !.y = y, !.v = v,
                   !.cov = cov]

SetPixel(i, x, y, v, observed) ==
    /\ ~ MaskMode /\ Mutable(i)
    /\ Called(observed, CallAt("setPixel", i, x, y, v, 0),
              [bb EXCEPT ![i] = BitBuffer_setPixel(@, x, y, v)])
    /\ UNCHANGED <<cm, linked>>

Clear(i, observed) ==
    /\ ~ MaskMode /\ Mutable(i)
    /\ Called(observed, Call("clear", i), [bb EXCEPT ![i] = BitBuffer_clear(@)])
    /\ UNCHANGED <<cm, linked>>

Fill(i, observed) ==
    /\ ~ MaskMode /\ Mutable(i)
    /\ Called(observed, Call("fill", i), [bb EXCEPT ![i] = BitBuffer_fill(@)])
    /\ UNCHANGED <<cm, linked>>

Reset(i, observed) ==
    /\ ~ MaskMode /\ Mutable(i)
    /\ Called(observed, Call("reset", i), [bb EXCEPT ![i] = BitBuffer_reset(@)])
    /\ UNCHANGED <<cm, linked>>

And(i, j, observed) ==
    /\ ~ MaskMode /\ Mutable(i)
    /\ LET r == BitBuffer_and(bb[i], bb[j])
       IN  Called(observed, CallOn("and", i, j, r.error),
                  [bb EXCEPT ![i] = r.this])
    /\ UNCHANGED <<cm, linked>>

CopyFrom(i, j, observed) ==
    /\ ~ MaskMode /\ Mutable(i)
    /\ LET r == BitBuffer_copyFrom(bb[i], bb[j])
       IN  Called(observed, CallOn("copyFrom", i, j, r.error),
                  [bb EXCEPT ![i] = r.this])
    /\ UNCHANGED <<cm, linked>>

MaskSetPixel(i, x, y, v, observed) ==
    /\ MaskMode /\ Mutable(i)
    /\ Called(observed, CallAt("mask.setPixel", i, x, y, v, 0),
              ClipMask_setPixel(bb, cm[i], x, y, v))
    /\ UNCHANGED <<cm, linked>>

MaskClear(i, observed) ==
    /\ MaskMode /\ Mutable(i)
    /\ Called(observed, Call("mask.clear", i), ClipMask_clear(bb, cm[i]))
    /\ UNCHANGED <<cm, linked>>

MaskClipAll(i, observed) ==
    /\ MaskMode /\ Mutable(i)
    /\ Called(observed, Call("mask.clipAll", i), ClipMask_clipAll(bb, cm[i]))
    /\ UNCHANGED <<cm, linked>>

MaskIntersectWith(i, j, observed) ==
    /\ MaskMode /\ Mutable(i)
    /\ LET r == ClipMask_intersectWith(bb, cm[i], cm[j])
       IN  Called(observed, CallOn("mask.intersectWith", i, j, r.error), r.heap)
    /\ UNCHANGED <<cm, linked>>

\* cm[j] = cm[i].clone(): the variable j is rebound to the new mask, whose
\* BitBuffer takes the reference the mask cloned does not use
MaskClone(i, j, observed) ==
    /\ MaskMode /\ i # j
    /\ 2 * Storage(i)._numPixels <= MaxPairPixels
    /\ LET fresh == CHOOSE r \in Refs : r # cm[i]._bitBuffer
           r == ClipMask_clone(bb, cm[i], fresh)
       IN  /\ Called(observed, CallOn("mask.clone", j, i, ""), r.heap)
           /\ cm' = [cm EXCEPT ![j] = r.mask]
    /\ linked' = TRUE

MaskPixelWriter(i, x, y, q, observed) ==
    /\ MaskMode /\ Mutable(i)
    /\ Called(observed, CallAt("mask.pixelWriter", i, x, y, FALSE, q),
              ClipMask_pixelWriter(bb, cm[i], x, y, q))
    /\ UNCHANGED <<cm, linked>>

\* How the next call may be made: observed or not while the run goes on, not
\* at all once the observed call has been made
Observing == IF Running THEN BOOLEAN ELSE {}

NextBits ==
    \/ \E observed \in Observing, i \in Refs :
          \E c \in ProbeCoords(Storage(i)), v \in BOOLEAN :
              SetPixel(i, c[1], c[2], v, observed)
    \/ \E observed \in Observing, i \in Refs : Clear(i, observed)
    \/ \E observed \in Observing, i \in Refs : Fill(i, observed)
    \/ \E observed \in Observing, i \in Refs : Reset(i, observed)
    \/ \E observed \in Observing, i \in Refs, j \in Refs : And(i, j, observed)
    \/ \E observed \in Observing, i \in Refs, j \in Refs :
          CopyFrom(i, j, observed)
    \/ \E observed \in Observing, i \in Refs :
          \E c \in ProbeCoords(Storage(i)), v \in BOOLEAN :
              MaskSetPixel(i, c[1], c[2], v, observed)
    \/ \E observed \in Observing, i \in Refs : MaskClear(i, observed)
    \/ \E observed \in Observing, i \in Refs : MaskClipAll(i, observed)
    \/ \E observed \in Observing, i \in Refs, j \in Refs :
          MaskIntersectWith(i, j, observed)
    \/ \E observed \in Observing, i \in Refs, j \in Refs :
          MaskClone(i, j, observed)
    \/ \E observed \in Observing, i \in Refs :
          \E c \in ProbeCoords(Storage(i)), q \in CoverageQuarters :
              MaskPixelWriter(i, c[1], c[2], q, observed)

SpecBits == InitBits /\ [][NextBits]_vars

-----------------------------------------------------------------------------
(* The Color program: one colour, created from the inputs below, then        *)
(* replaced by the results of withGlobalAlpha and blendOver calls made with  *)
(* it; as for the bit objects the final call of a run is the observed one.   *)

\* Straight r,g,b triples and alphas the callers pass (the spec's scenarios)
Palette == {<<255, 0, 0>>, <<100, 150, 200>>, <<200, 100, 50>>}
Alphas == {0, 1, 128, 255}

\* Every colour new Color(...) returns for these inputs
ColorInputs ==
    {Color_new(Num(c[1]), Num(c[2]), Num(c[3]), Num(a), pre).color :
        c \in Palette, a \in Alphas, pre \in BOOLEAN}

\* Factors passed to withGlobalAlpha, in quarters: -0.25, 0, ..., 1, 1.25
FactorQuarters == -1 .. 5

NoColorCall ==
    [op |-> "new", this |-> NoColor, other |-> NoColor, factor |-> 0,
     error |-> "", result |-> NoColor]

ColorRunning == clast.op \in {"new", "unobserved"}

InitColor ==
    /\ cur \in ColorInputs
    /\ nops = 0
    /\ clast = NoColorCall
    /\ bb = << >> /\ cm = << >> /\ last = NoCall /\ linked = FALSE
    /\ cache = << >>

\* A call returning r, whose result (when it does not throw) replaces cur when
\* unobserved
ColorCalled(observed, op, this, other, factor, r) ==
    /\ UNCHANGED bitVars
    /\ UNCHANGED cache
    /\ IF observed
       THEN /\ clast' = [op |-> op, this |-> this, other |-> other,
                         factor |-> factor, error |-> r.error,
                         result |-> r.color]
            /\ UNCHANGED <<cur, nops>>
       ELSE /\ nops < MaxOps
            /\ r.error = ""
            /\ cur' = r.color
            /\ nops' = nops + 1
            /\ clast' = [NoColorCall EXCEPT !.op = "unobserved"]

WithGlobalAlpha(q, observed) ==
    ColorCalled(observed, "withGlobalAlpha", cur, NoColor, q,
                Color_withGlobalAlpha(cur, <<q, 4>>))

\* cur.blendOver(background), the background a colour just created
BlendOver(background, observed) ==
    ColorCalled(observed, "blendOver", cur, background, 0,
                Color_blendOver(cur, background))

\* source.blendOver(cur), the source a colour just created
BlendUnder(source, observed) ==
    ColorCalled(observed, "blendOver", source, cur, 0,
                Color_blendOver(source, cur))

ColorObserving == IF ColorRunning THEN BOOLEAN ELSE {}

NextColor ==
    \/ \E observed \in ColorObserving, q \in FactorQuarters :
          WithGlobalAlpha(q, observed)
    \/ \E observed \in ColorObserving, c \in ColorInputs :
          BlendOver(c, observed)
    \/ \E observed \in ColorObserving, c \in ColorInputs :
          BlendUnder(c, observed)

SpecColor == InitColor /\ [][NextColor]_vars

-----------------------------------------------------------------------------
(* The Color program restricted to colours created from straight components *)
(* (isPremultiplied false) and what withGlobalAlpha, with a factor in [0,1], *)
(* and blendOver make of them.                                               *)

\* Alphas passed with straight components: the integers above and BelowHalf
StraightAlphas == {Num(a) : a \in Alphas} \cup {BelowHalf}

\* Every colour new Color(r, g, b, a) returns for these inputs
StraightInputs ==
    {Color_new(Num(c[1]), Num(c[2]), Num(c[3]), a, FALSE).color :
        c \in Palette, a \in StraightAlphas}

\* Factors in [0,1], in quarters
UnitQuarters == 0 .. 4

\* The colours blended with the held one: created ones and their
\* withGlobalAlpha results
StraightOperands ==
    StraightInputs
    \cup {Color_withGlobalAlpha(c, <<q, 4>>).color :
             c \in StraightInputs, q \in UnitQuarters}

InitStraight ==
    /\ cur \in StraightInputs
    /\ nops = 0
    /\ clast = NoColorCall
    /\ bb = << >> /\ cm = << >> /\ last = NoCall /\ linked = FALSE
    /\ cache = << >>

NextStraight ==
    \/ \E observed \in ColorObserving, q \in UnitQuarters :
          WithGlobalAlpha(q, observed)
    \/ \E observed \in ColorObserving, c \in StraightOperands :
          BlendOver(c, observed)
    \/ \E observed \in ColorObserving, c \in StraightOperands :
          BlendUnder(c, observed)

SpecStraight == InitStraight /\ [][NextStraight]_vars

-----------------------------------------------------------------------------
(* The constructors, called with arguments of every kind: each run is one    *)
(* call, recorded with its arguments and the message thrown ("" when none).  *)

\* Widths, heights and default values passed to new BitBuffer, in halves:
\* -1, -0.5, 0, 0.5, 1, 1.5, ...
WidthHalves == -2 .. 2 * MaxW + 1
HeightHalves == -2 .. 2 * MaxH + 1
DefaultHalves == -1 .. 4

\* Components passed to new Color, in halves: -0.5, 0, 0.5, 25.5, 100, 155,
\* 255, 255.5, 256
EdgeHalves == {-1, 0, 1, 51, 200, 310, 510, 511, 512}

EdgeArgs ==
    {<<(<<r, 2>>), (<<g, 2>>), (<<b, 2>>), (<<a, 2>>)>> :
        r \in EdgeHalves, g \in EdgeHalves, b \in EdgeHalves, a \in EdgeHalves}

\* Every integer r, g, b with every integer alpha
GridArgs ==
    {<<Num(r), Num(ComponentMax - r), Num((r + 128) % 256), Num(a)>> :
        r \in 0 .. ComponentMax, a \in 0 .. ComponentMax}

PaletteArgs ==
    {<<Num(c[1]), Num(c[2]), Num(c[3]), Num(a)>> : c \in Palette, a \in Alphas}

ColorArgs == EdgeArgs \cup GridArgs \cup PaletteArgs

NotCreated == [op |-> "none"]

InitCreate ==
    /\ bb = << >> /\ cm = << >> /\ linked = FALSE
    /\ last = NotCreated
    /\ cur = NoColor /\ nops = 0
    /\ clast = NotCreated
    /\ cache = << >>

\* new BitBuffer(width, height, defaultValue)
NewBitBuffer(width, height, defaultValue) ==
    /\ last = NotCreated /\ clast = NotCreated
    /\ LET error == BitBuffer_constructorError(width, height, defaultValue)
       IN  /\ last' = [op |-> "new BitBuffer", width |-> width,
                       height |-> height, defaultValue |-> defaultValue,
                       error |-> error]
           /\ bb' = IF error = ""
                    THEN <<BitBuffer_new(NumInt(width), NumInt(height),
                                         NumInt(defaultValue))>>
                    ELSE << >>
    /\ UNCHANGED <<cm, linked, cache>>
    /\ UNCHANGED colorVars

\* new Color(r, g, b, a, isPremultiplied)
NewColor(args, isPremultiplied) ==
    /\ last = NotCreated /\ clast = NotCreated
    /\ LET made == Color_new(args[1], args[2], args[3], args[4],
                             isPremultiplied)
       IN  /\ clast' = [op |-> "new Color", r |-> args[1], g |-> args[2],
                        b |-> args[3], a |-> args[4],
                        isPremultiplied |-> isPremultiplied,
                        error |-> made.error]
           /\ cur' = made.color
    /\ UNCHANGED <<nops, cache>>
    /\ UNCHANGED bitVars

\* Whether the run's call is still to be made
Creating == IF last = NotCreated /\ clast = NotCreated THEN {TRUE} ELSE {}

NextCreate ==
    \/ \E creating \in Creating :
          \E w \in WidthHalves, h \in HeightHalves, d \in DefaultHalves :
              NewBitBuffer(<<w, 2>>, <<h, 2>>, <<d, 2>>)
    \/ \E creating \in Creating :
          \E args \in ColorArgs, isPremultiplied \in BOOLEAN :
              NewColor(args, isPremultiplied)

SpecCreate == InitCreate /\ [][NextCreate]_vars

-----------------------------------------------------------------------------
(* ColorParser.  A string is the sequence of its characters.  A JavaScript    *)
(* value is a number <<n, d>>, NaN being <<0, 0>> (every comparison with it  *)
(* is false), or undefined, << >>.                                            *)

NaN == <<0, 0>>
Undefined == << >>
isNaN(p) == p[2] = 0

Whitespace == {" "}
UpperCaseLetters == <<"A", "B", "C", "D", "E", "F", "G", "R", "X">>
LowerCaseLetters == <<"a", "b", "c", "d", "e", "f", "g", "r", "x">>
DigitChars ==
    <<"0", "1", "2", "3", "4", "5", "6", "7", "8", "9",
      "a", "b", "c", "d", "e", "f">>

\* String.prototype.toLowerCase, on the letters the inputs hold
String_toLowerCase(s) ==
    [i \in 1 .. Len(s) |->
        IF \E k \in DOMAIN UpperCaseLetters : UpperCaseLetters[k] = s[i]
        THEN LowerCaseLetters[CHOOSE k \in DOMAIN UpperCaseLetters :
                                 UpperCaseLetters[k] = s[i]]
        ELSE s[i]]

RECURSIVE String_trimStart(_)
String_trimStart(s) ==
    IF Len(s) > 0 /\ s[1] \in Whitespace
    THEN String_trimStart(SubSeq(s, 2, Len(s)))
    ELSE s

RECURSIVE String_trimEnd(_)
String_trimEnd(s) ==
    IF Len(s) > 0 /\ s[Len(s)] \in Whitespace
    THEN String_trimEnd(SubSeq(s, 1, Len(s) - 1))
    ELSE s

String_trim(s) == String_trimEnd(String_trimStart(s))

String_startsWith(s, prefix) ==
    Len(s) >= Len(prefix) /\ SubSeq(s, 1, Len(prefix)) = prefix

\* s.substring(from, to), indices counted from 0, to exclusive
String_substring(s, from, to) ==
    SubSeq(s, from + 1, IF to < Len(s) THEN to ELSE Len(s))

\* The index of the first c in s at or after from, 0 when there is none
FirstIndexOf(s, c, from) ==
    IF \E e \in from .. Len(s) : s[e] = c
    THEN CHOOSE e \in from .. Len(s) :
             s[e] = c /\ \A e2 \in from .. e - 1 : s[e2] # c
    ELSE 0

RECURSIVE String_split(_, _)
String_split(s, separator) ==
    LET e == FirstIndexOf(s, separator, 1)
    IN  IF e = 0 THEN <<s>>
        ELSE <<SubSeq(s, 1, e - 1)>>
                 \o String_split(SubSeq(s, e + 1, Len(s)), separator)

\* A digit of the radix, in either case
IsDigit(c, radix) ==
    \E v \in 1 .. radix : DigitChars[v] = String_toLowerCase(<<c>>)[1]

DigitValue(c) ==
    (CHOOSE v \in 1 .. 16 : DigitChars[v] = String_toLowerCase(<<c>>)[1]) - 1

\* The longest prefix of s made of digits of the radix
RECURSIVE DigitsPrefix(_, _)
DigitsPrefix(s, radix) ==
    IF Len(s) > 0 /\ IsDigit(s[1], radix)
    THEN <<s[1]>> \o DigitsPrefix(SubSeq(s, 2, Len(s)), radix)
    ELSE << >>

RECURSIVE DigitsValue(_, _, _)
DigitsValue(s, radix, acc) ==
    IF Len(s) = 0 THEN acc
    ELSE DigitsValue(SubSeq(s, 2, Len(s)), radix,
                     acc * radix + DigitValue(s[1]))

\* parseInt(string, radix), radix 0 standing for an absent radix: leading
\* whitespace, a sign, 0x for radix 16 or none, then the digits up to the
\* first character that is not one; NaN when there is no digit
parseInt(string, radix) ==
    LET s0 == String_trimStart(string)
        signed == Len(s0) > 0 /\ s0[1] \in {"+", "-"}
        negative == Len(s0) > 0 /\ s0[1] = "-"
        s1 == IF signed THEN SubSeq(s0, 2, Len(s0)) ELSE s0
        hexPrefix == /\ radix \in {0, 16} /\ Len(s1) >= 2
                     /\ s1[1] = "0" /\ s1[2] \in {"x", "X"}
        R == IF radix # 0 THEN radix ELSE IF hexPrefix THEN 16 ELSE 10
        s2 == IF hexPrefix THEN SubSeq(s1, 3, Len(s1)) ELSE s1
        digits == DigitsPrefix(s2, R)
    IN  IF Len(digits) = 0 THEN NaN
        ELSE Num((IF negative THEN -1 ELSE 1) * DigitsValue(digits, R, 0))

\* parseFloat(string) for decimal literals without an exponent: leading
\* whitespace, a sign, digits, a point and digits; NaN when there is no digit
parseFloat(string) ==
    LET s0 == String_trimStart(string)
        signed == Len(s0) > 0 /\ s0[1] \in {"+", "-"}
        negative == Len(s0) > 0 /\ s0[1] = "-"
        s1 == IF signed THEN SubSeq(s0, 2, Len(s0)) ELSE s0
        whole == DigitsPrefix(s1, 10)
        rest == SubSeq(s1, Len(whole) + 1, Len(s1))
        fraction == IF Len(rest) > 0 /\ rest[1] = "."
                    THEN DigitsPrefix(SubSeq(rest, 2, Len(rest)), 10)
                    ELSE << >>
    IN  IF Len(whole) = 0 /\ Len(fraction) = 0 THEN NaN
        ELSE <<(IF negative THEN -1 ELSE 1)
                   * DigitsValue(whole \o fraction, 10, 0),
               10 ^ Len(fraction)>>

Math_min(p, q) == IF isNaN(p) \/ isNaN(q) THEN NaN ELSE IF NumLt(q, p) THEN q ELSE p
Math_max(p, q) == IF isNaN(p) \/ isNaN(q) THEN NaN ELSE IF NumGt(q, p) THEN q ELSE p

\* x || 0 on a number: 0 for NaN and for 0
OrZero(p) == IF isNaN(p) \/ p[1] = 0 THEN Num(0) ELSE p

OpaqueBlack == [r |-> Num(0), g |-> Num(0), b |-> Num(0), a |-> Num(255)]

\* this._namedColors: the own properties the inputs name
ColorParser__namedColors ==
    [name \in {<<"b", "l", "a", "c", "k">>, <<"w", "h", "i", "t", "e">>,
               <<"r", "e", "d">>} |->
        CASE name = <<"b", "l", "a", "c", "k">> ->
                 [r |-> Num(0), g |-> Num(0), b |-> Num(0)]
          [] name = <<"w", "h", "i", "t", "e">> ->
                 [r |-> Num(255), g |-> Num(255), b |-> Num(255)]
          [] OTHER -> [r |-> Num(255), g |-> Num(0), b |-> Num(0)]]

\* What a plain object inherits from Object.prototype under a lower-case name:
\* the function Object, which has no r, g or b
ObjectPrototype ==
    [name \in {<<"c", "o", "n", "s", "t", "r", "u", "c", "t", "o", "r">>} |->
        [name |-> "Object"]]

\* this._namedColors[trimmed]: {} when undefined
NamedColorLookup(trimmed) ==
    IF trimmed \in DOMAIN ColorParser__namedColors
    THEN {ColorParser__namedColors[trimmed]}
    ELSE IF trimmed \in DOMAIN ObjectPrototype
    THEN {ObjectPrototype[trimmed]}
    ELSE {}

\* named.r for an object named: undefined when it has no such property
PropertyOf(obj, name) ==
    IF name \in DOMAIN obj THEN obj[name] ELSE Undefined

\* hex.split('').map(c => c + c).join('')
DoubleEach(hex) == [i \in 1 .. 2 * Len(hex) |-> hex[(i + 1) \div 2]]

ColorParser__parseHex(trimmed) ==
    LET hex0 == String_substring(trimmed, 1, Len(trimmed))
        hex == IF Len(hex0) = 3 THEN DoubleEach(hex0) ELSE hex0
    IN  IF Len(hex) = 6
        THEN [r |-> parseInt(String_substring(hex, 0, 2), 16),
              g |-> parseInt(String_substring(hex, 2, 4), 16),
              b |-> parseInt(String_substring(hex, 4, 6), 16),
              a |-> Num(255)]
        ELSE IF Len(hex) = 8
        THEN [r |-> parseInt(String_substring(hex, 0, 2), 16),
              g |-> parseInt(String_substring(hex, 2, 4), 16),
              b |-> parseInt(String_substring(hex, 4, 6), 16),
              a |-> parseInt(String_substring(hex, 6, 8), 16)]
        ELSE OpaqueBlack

RECURSIVE SkipWhitespace(_, _)
SkipWhitespace(s, k) ==
    IF k <= Len(s) /\ s[k] \in Whitespace THEN SkipWhitespace(s, k + 1) ELSE k

\* /rgba?\s*\(\s*([^)]+)\s*\)/ tried at index i: {} when it does not match
\* there, else the text the group captures (all up to the first ")" but the
\* leading whitespace, of which the group keeps one character when there is
\* nothing else)
RgbMatchAt(s, i) ==
    IF i + 2 > Len(s) \/ SubSeq(s, i, i + 2) # <<"r", "g", "b">> THEN {}
    ELSE LET afterA == IF i + 3 <= Len(s) /\ s[i + 3] = "a"
                       THEN i + 4 ELSE i + 3
             k == SkipWhitespace(s, afterA)
         IN  IF k > Len(s) \/ s[k] # "(" THEN {}
             ELSE LET e == FirstIndexOf(s, ")", k + 1)
                  IN  IF e = 0 \/ e = k + 1 THEN {}
                      ELSE LET content == SubSeq(s, k + 1, e - 1)
                               stripped == String_trimStart(content)
                           IN  IF Len(stripped) = 0
                               THEN {<<content[Len(content)]>>}
                               ELSE {stripped}

\* rgb.match(...): the group of the leftmost match, {} when there is none
RgbMatch(s) ==
    LET hits == {i \in 1 .. Len(s) : RgbMatchAt(s, i) # {}}
    IN  IF hits = {} THEN {}
        ELSE RgbMatchAt(s, CHOOSE i \in hits : \A j \in hits : i <= j)

ColorParser__parseRGB(rgb) ==
    LET match == RgbMatch(rgb)
    IN  IF match = {} THEN OpaqueBlack
        ELSE LET split == String_split(CHOOSE m \in match : TRUE, ",")
                 parts == [i \in 1 .. Len(split) |-> String_trim(split[i])]
             IN  IF Len(parts) < 3 THEN OpaqueBlack
                 ELSE LET r == Math_max(Num(0), Math_min(Num(255),
                                   OrZero(parseInt(parts[1], 0))))
                          g == Math_max(Num(0), Math_min(Num(255),
                                   OrZero(parseInt(parts[2], 0))))
                          b == Math_max(Num(0), Math_min(Num(255),
                                   OrZero(parseInt(parts[3], 0))))
                          alpha == IF Len(parts) >= 4
                                   THEN parseFloat(parts[4]) ELSE NaN
                          a == IF isNaN(alpha) THEN Num(255)
                               ELSE Math_max(Num(0), Math_min(Num(255),
                                        Num(Math_round(
                                            NumMul(alpha, Num(255))))))
                      IN  [r |-> r, g |-> g, b |-> b, a |-> a]

\* parse(color) on a parser whose cache is cache_: what it returns and the
\* cache afterwards.  color is [type, chars], chars empty unless a string.
ColorParser_parse(cache_, color) ==
    IF color \in DOMAIN cache_
    THEN [result |-> cache_[color], cache |-> cache_]
    ELSE LET trimmed == String_toLowerCase(String_trim(color.chars))
             named == NamedColorLookup(trimmed)
             result ==
                 IF color.type # "string" THEN OpaqueBlack
                 ELSE IF String_startsWith(trimmed, <<"#">>)
                 THEN ColorParser__parseHex(trimmed)
                 ELSE IF String_startsWith(trimmed, <<"r", "g", "b">>)
                 THEN ColorParser__parseRGB(trimmed)
                 ELSE IF named # {}
                 THEN LET n == CHOOSE n \in named : TRUE
                      IN  [r |-> PropertyOf(n, "r"), g |-> PropertyOf(n, "g"),
                           b |-> PropertyOf(n, "b"), a |-> Num(255)]
                 ELSE OpaqueBlack
         IN  [result |-> result,
              cache |-> [k \in DOMAIN cache_ \cup {color} |->
                            IF k = color THEN result ELSE cache_[k]]]

ColorParser_clearCache(cache_) == << >>

(* The parser program: parse and clearCache calls in any order, the final   *)
(* parse observed.                                                           *)

\* The characters of the short '#' inputs
HexProbeChars == {"0", "f", "g", "-"}

\* The strings callers pass: colour names known and unknown, hex and rgb
\* notations well and ill formed
ScenarioStrings ==
    {<<"r", "e", "d">>,
     <<" ", "R", "e", "d", " ">>,
     <<"R", "E", "D">>,
     <<"r", "o", "t">>,
     << >>,
     <<"c", "o", "n", "s", "t", "r", "u", "c", "t", "o", "r">>,
     <<"#", "f", "f", "0", "0", "0", "0">>,
     <<"#", "F", "F", "0", "0", "0", "0", "8", "0">>,
     <<"#", "f", "f", "0", "0">>,
     <<"#", "f", "f", "0", "0", "0", "0", "0">>,
     <<"#", "g", "g", "0", "0", "0", "0">>,
     <<"#", "0", "0", "0", "0", "0", "g">>,
     <<"#", "-", "f", "0", "0", "0", "0">>,
     <<"#", " ", "f", "0", "0", "0", "0">>,
     <<"#", "0", "x", "1", "2", "3", "4">>,
     <<"r", "g", "b", "(", "2", "5", "5", ",", "0", ",", "0", ")">>,
     <<"r", "g", "b", "(", " ", "2", "5", "5", " ", ",", " ", "1", "2", "8", " ", ",", " ", "0", " ", ")">>,
     <<"r", "g", "b", "a", "(", "2", "5", "5", ",", "0", ",", "0", ",", "0", ".", "5", ")">>,
     <<"r", "g", "b", "a", "(", "0", ",", "0", ",", "0", ",", "2", ")">>,
     <<"r", "g", "b", "a", "(", "0", ",", "0", ",", "0", ",", "-", "1", ")">>,
     <<"r", "g", "b", "a", "(", "0", ",", "0", ",", "0", ",", "x", ")">>,
     <<"r", "g", "b", "(", "3", "0", "0", ",", "-", "5", ",", "x", ")">>,
     <<"r", "g", "b", "(", "1", ",", "2", ")">>,
     <<"r", "g", "b">>,
     <<"r", "g", "b", "(", ")">>,
     <<"r", "g", "b", "x">>,
     <<"r", "g", "b", "(", "1", ",", "2", ",", "3">>,
     <<"r", "g", "b", " ", "1", ",", "2", ",", "3">>,
     <<"r", "g", "b", "(", "0", "x", "1", "0", ",", "1", ".", "9", ",", "+", "7", ")">>,
     <<"r", "g", "b", "x", " ", "r", "g", "b", "(", "1", ",", "2", ",", "3", ")">>}

\* "#" followed by up to three of the probe characters
ShortHexStrings ==
    {<<"#">>}
    \cup {<<"#", c1>> : c1 \in HexProbeChars}
    \cup {<<"#", c1, c2>> : c1 \in HexProbeChars, c2 \in HexProbeChars}
    \cup {<<"#", c1, c2, c3>> :
             c1 \in HexProbeChars, c2 \in HexProbeChars, c3 \in HexProbeChars}

\* The values passed to parse: strings, and a number, null and undefined
ParserInputs ==
    {[type |-> "string", chars |-> t] : t \in ScenarioStrings \cup ShortHexStrings}
    \cup {[type |-> ty, chars |-> << >>] : ty \in {"number", "object", "undefined"}}

InitParser ==
    /\ cache = << >>
    /\ clast = [op |-> "new"]
    /\ bb = << >> /\ cm = << >> /\ last = NoCall /\ linked = FALSE
    /\ cur = NoColor /\ nops = 0

Parse(color, observed) ==
    /\ LET r == ColorParser_parse(cache, color)
       IN  /\ cache' = r.cache
           /\ IF observed
              THEN clast' = [op |-> "parse", color |-> color,
                             result |-> r.result,
                             hit |-> color \in DOMAIN cache]
              ELSE /\ Cardinality(DOMAIN r.cache) <= MaxCached
                   /\ clast' = [op |-> "unobserved"]
    /\ UNCHANGED <<cur, nops>>
    /\ UNCHANGED bitVars

ClearCache ==
    /\ clast.op \in {"new", "unobserved"}
    /\ cache' = ColorParser_clearCache(cache)
    /\ clast' = [op |-> "unobserved"]
    /\ UNCHANGED <<cur, nops>>
    /\ UNCHANGED bitVars

ParserObserving == IF clast.op \in {"new", "unobserved"} THEN BOOLEAN ELSE {}

NextParser ==
    \/ \E observed \in ParserObserving, color \in ParserInputs :
          Parse(color, observed)
    \/ ClearCache

SpecParser == InitParser /\ [][NextParser]_vars

-----------------------------------------------------------------------------
(* Observations used by the properties *)

InRange(this) ==
    {<<x, y>> : x \in 0 .. this._width - 1, y \in 0 .. this._height - 1}

\* What getPixel returns at every in-range coordinate
Pixels(this) == [c \in InRange(this) |-> BitBuffer_getPixel(this, c[1], c[2])]

MaskPixels(heap, masks, i) ==
    [c \in {<<x, y>> : x \in 0 .. masks[i].width - 1,
                       y \in 0 .. masks[i].height - 1} |->
        ClipMask_getPixel(heap, masks[i], c[1], c[2])]

AllPixels(this, value) ==
    \A c \in InRange(this) : BitBuffer_getPixel(this, c[1], c[2]) = value

\* Bit k of the byte array, k a linear bit index
RawBit(this, k) == BitOf(this._buffer[k \div BitsPerByte], k % BitsPerByte)

PadBitsZero(this) ==
    \A k \in this._numPixels .. this._numBytes * BitsPerByte - 1 :
        RawBit(this, k) = 0

HasPadBits(this) == this._numPixels % BitsPerByte # 0

-----------------------------------------------------------------------------
\* C1: in every reachable state every bit of the final byte whose linear index
\* is >= width*height is 0, for both default values and after any sequence of
\* setPixel, clear, fill, reset, and, copyFrom.
C1_PadBitsAlwaysZero == \A i \in Refs : PadBitsZero(bb[i])

\* C1 witness: a two-byte buffer with pad bits whose last in-range pixel, the
\* neighbour of the pad bits, has just been set by setPixel.
C1_Witness ==
    /\ last.op = "setPixel" /\ last.changed /\ last.v
    /\ LET this == bb[last.self]
       IN  /\ HasPadBits(this) /\ this._numBytes = 2
           /\ last.x = this._width - 1 /\ last.y = this._height - 1

\* C2: after A.and(B) / A.intersectWith(B) on equal dimensions every in-range
\* pixel of A is set exactly when it was set in A before and is set in B, and B
\* is unchanged; an all-ones B leaves A unchanged, an all-zeros B leaves A empty.
C2_AndIsPixelwise ==
    [][(last'.op \in {"and", "mask.intersectWith"} /\ last'.error = "") =>
        LET A == StorageOf(bb, cm, last'.self)
            B == StorageOf(bb, cm, last'.other)
            A2 == StorageOf(bb', cm', last'.self)
            B2 == StorageOf(bb', cm', last'.other)
        IN  /\ \A c \in InRange(A) :
                  BitBuffer_getPixel(A2, c[1], c[2]) =
                      (BitBuffer_getPixel(A, c[1], c[2])
                          /\ BitBuffer_getPixel(B, c[1], c[2]))
            /\ Pixels(B2) = Pixels(B)
            /\ AllPixels(B, TRUE) => Pixels(A2) = Pixels(A)
            /\ AllPixels(B, FALSE) => AllPixels(A2, FALSE)]_vars

\* C2 witness: an and() that cleared some pixel of A and left another set.
C2_Witness ==
    /\ last.op = "and" /\ last.error = "" /\ last.changed
    /\ last.self # last.other
    /\ ~ AllPixels(bb[last.self], FALSE)
    /\ ~ AllPixels(bb[last.other], TRUE)

\* C4: after setPixel(x,y,v) with (x,y) in range getPixel(x,y) returns v and
\* getPixel at every other in-range coordinate returns what it did before.
C4_SetThenGet ==
    [][(/\ last'.op = "setPixel"
        /\ <<last'.x, last'.y>> \in InRange(bb[last'.self])) =>
        LET before == bb[last'.self]
            after == bb'[last'.self]
        IN  /\ BitBuffer_getPixel(after, last'.x, last'.y) = last'.v
            /\ \A c \in InRange(before) \ {<<last'.x, last'.y>>} :
                  BitBuffer_getPixel(after, c[1], c[2]) =
                      BitBuffer_getPixel(before, c[1], c[2])]_vars

\* C4 witness: a setPixel that changed a bit of the second byte while other
\* pixels of the buffer hold the opposite value.
C4_Witness ==
    /\ last.op = "setPixel" /\ last.changed
    /\ LET this == bb[last.self]
       IN  /\ last.y * this._width + last.x >= BitsPerByte
           /\ \E c \in InRange(this) :
                  BitBuffer_getPixel(this, c[1], c[2]) # last.v

\* C5: the pixel writer leaves the mask unchanged for (x,y) outside
\* 0<=x<width, 0<=y<height, and otherwise sets pixel (x,y) visible exactly when
\* coverage > 0.5 (0.5 itself clips) and changes no other pixel.
C5_PixelWriter ==
    [][(last'.op = "mask.pixelWriter") =>
        LET mask == cm[last'.self]
            x == last'.x
            y == last'.y
        IN  IF x < 0 \/ x >= mask.width \/ y < 0 \/ y >= mask.height
            THEN bb' = bb /\ cm' = cm
            ELSE /\ ClipMask_getPixel(bb', cm'[last'.self], x, y)
                      = (last'.cov > 2)
                 /\ \A c \in DOMAIN MaskPixels(bb, cm, last'.self) \ {<<x, y>>} :
                       MaskPixels(bb', cm', last'.self)[c]
                           = MaskPixels(bb, cm, last'.self)[c]
                 /\ \A j \in Refs \ {last'.self} :
                       MaskPixels(bb', cm', j) = MaskPixels(bb, cm, j)]_vars

\* C5 witness: the writer, called with coverage exactly 0.5 on a visible
\* in-range pixel, has clipped it.
C5_Witness ==
    /\ last.op = "mask.pixelWriter" /\ last.cov = 2 /\ last.changed
    /\ ~ ClipMask_getPixel(bb, cm[last.self], last.x, last.y)
    /\ last.x >= 0 /\ last.x < cm[last.self].width
    /\ last.y >= 0 /\ last.y < cm[last.self].height

MaskMutators ==
    {"mask.setPixel", "mask.clear", "mask.clipAll", "mask.intersectWith",
     "mask.pixelWriter"}

\* C6: clone() returns a mask equal to the original that shares no storage
\* with it: once the two masks are original and clone, a setPixel, clear,
\* clipAll, intersectWith or pixel-writer call on one leaves every getPixel of
\* the other as it was.
C6_CloneIsIndependent ==
    [][/\ (last'.op = "mask.clone") =>
            /\ MaskPixels(bb', cm', last'.self) = MaskPixels(bb, cm, last'.other)
            /\ MaskPixels(bb', cm', last'.other) = MaskPixels(bb, cm, last'.other)
            /\ cm'[last'.self]._bitBuffer # cm'[last'.other]._bitBuffer
       /\ (linked /\ last'.op \in MaskMutators) =>
            \A j \in Refs \ {last'.self} :
                MaskPixels(bb', cm', j) = MaskPixels(bb, cm, j)]_vars

\* C6 witness: after a clone, a call on one of the two masks changed it, and
\* the two masks now differ.
C6_Witness ==
    /\ linked /\ last.op \in MaskMutators /\ last.changed
    /\ MaskPixels(bb, cm, 1) # MaskPixels(bb, cm, 2)

\* C8: a freshly created mask has hasClipping() false; after clipAll()
\* hasClipping() is true and every in-range getPixel is false; after clear(),
\* from any state, hasClipping() is false and every in-range getPixel is true.
C8_ClipAllAndClear ==
    MaskMode =>
        /\ (last.op = "new") =>
              \A i \in Refs : ~ ClipMask_hasClipping(bb, cm[i])
        /\ (last.op = "mask.clipAll") =>
              /\ ClipMask_hasClipping(bb, cm[last.self])
              /\ \A c \in DOMAIN MaskPixels(bb, cm, last.self) :
                    ~ ClipMask_getPixel(bb, cm[last.self], c[1], c[2])
        /\ (last.op = "mask.clear") =>
              /\ ~ ClipMask_hasClipping(bb, cm[last.self])
              /\ \A c \in DOMAIN MaskPixels(bb, cm, last.self) :
                    ClipMask_getPixel(bb, cm[last.self], c[1], c[2])

\* C8 witness: clear() has made a mask with pad bits, which held clipped
\* pixels, fully visible again.
C8_Witness ==
    /\ MaskMode /\ last.op = "mask.clear" /\ last.changed
    /\ HasPadBits(Storage(last.self))

\* C9: from any state fill() makes getPixel true at every in-range coordinate
\* and isFull() true, and clear() makes getPixel false at every in-range
\* coordinate and isEmpty() true, also when width*height is no multiple of 8.
C9_FillAndClear ==
    /\ (last.op = "fill") =>
          /\ AllPixels(bb[last.self], TRUE)
          /\ BitBuffer_isFull(bb[last.self])
    /\ (last.op = "clear") =>
          /\ AllPixels(bb[last.self], FALSE)
          /\ BitBuffer_isEmpty(bb[last.self])

\* C9 witness: fill() has changed a two-byte buffer whose pixel count is not a
\* multiple of 8.
C9_Witness ==
    /\ last.op = "fill" /\ last.changed
    /\ HasPadBits(bb[last.self]) /\ bb[last.self]._numBytes = 2

\* Every in-range bit equals the default value, the emptiness and fullness
\* queries agree with it, and the buffer equals a newly constructed one
AsConstructed(this) ==
    /\ AllPixels(this, this._defaultValue = 1)
    /\ (this._defaultValue = 0) =>
          BitBuffer_isEmpty(this) /\ ~ BitBuffer_isFull(this)
    /\ (this._defaultValue = 1) =>
          BitBuffer_isFull(this) /\ ~ BitBuffer_isEmpty(this)
    /\ BitBuffer_equals(this,
          BitBuffer_new(this._width, this._height, this._defaultValue))

\* C10: right after construction, and right after reset() following any
\* mutations, every in-range bit equals the construction-time defaultValue:
\* default 0 is empty and not full, default 1 is full and not empty, and the
\* buffer equals a newly constructed one of the same size and default.
C10_ResetRestoresDefault ==
    /\ (last.op = "new") => \A i \in Refs : AsConstructed(bb[i])
    /\ (last.op = "reset") => AsConstructed(bb[last.self])

\* C10 witness: reset() has changed a buffer of default 1 with pad bits back
\* to its constructed state.
C10_Witness ==
    /\ last.op = "reset" /\ last.changed
    /\ bb[last.self]._defaultValue = 1 /\ HasPadBits(bb[last.self])

-----------------------------------------------------------------------------
\* round(num / den), halves up, as the claims below state their roundings
RoundedQuotient(num, den) == (2 * num + den) \div (2 * den)

\* The colour C3 states for S.blendOver(B)
C3_Blend(S, B) ==
    IF S._a = 255 THEN S
    ELSE IF S._a = 0 THEN B
    ELSE [_r |-> RoundedQuotient(255 * S._r + B._r * (255 - S._a), 255),
          _g |-> RoundedQuotient(255 * S._g + B._g * (255 - S._a), 255),
          _b |-> RoundedQuotient(255 * S._b + B._b * (255 - S._a), 255),
          _a |-> RoundedQuotient(255 * S._a + B._a * (255 - S._a), 255)]

\* C3: for every source S and background B, S.blendOver(B) returns S when S's
\* alpha is 255, B when it is 0, and otherwise the colour with premultiplied
\* components round(S_c + B_c*(255 - S_a)/255) and alpha
\* round(S_a + B_a*(255 - S_a)/255), taken as already premultiplied.
C3_BlendOverReturns ==
    (clast.op = "blendOver") =>
        /\ clast.error = ""
        /\ clast.result = C3_Blend(clast.this, clast.other)

\* The straight component C7 reads from the receiver
C7_Straight(this, p) ==
    IF this._a = 0 THEN 0
    ELSE IF this._a = 255 THEN p
    ELSE RoundedQuotient(p * 255, this._a)

\* C7: withGlobalAlpha(factor) fails for factor < 0 or factor > 1; for factor
\* in [0,1] it returns a colour with alpha round(a*factor) and premultiplied
\* r,g,b round(s_c * newAlpha / 255), s_c the receiver's straight component.
C7_WithGlobalAlphaReturns ==
    (clast.op = "withGlobalAlpha") =>
        IF clast.factor < 0 \/ clast.factor > 4
        THEN clast.error # ""
        ELSE LET this == clast.this
                 newAlpha == RoundedQuotient(this._a * clast.factor, 4)
             IN  /\ clast.error = ""
                 /\ clast.result =
                      [_r |-> RoundedQuotient(
                                 C7_Straight(this, this._r) * newAlpha, 255),
                       _g |-> RoundedQuotient(
                                 C7_Straight(this, this._g) * newAlpha, 255),
                       _b |-> RoundedQuotient(
                                 C7_Straight(this, this._b) * newAlpha, 255),
                       _a |-> newAlpha]

-----------------------------------------------------------------------------
\* The coordinates callers pass that lie outside the buffer
OutOfRangeProbes(this) == ProbeCoords(this) \ InRange(this)

\* C11: for every (x,y) with x < 0, x >= width, y < 0 or y >= height,
\* getPixel(x,y) on a BitBuffer or ClipMask returns false, and setPixel(x,y,v)
\* throws nothing and leaves every bit of the storage unchanged, also when
\* y*width + x is the index of a bit of the byte array.
C11_OutOfRangeIgnored ==
    /\ [](\A i \in Refs : \A c \in OutOfRangeProbes(Storage(i)) :
            /\ ~ BitBuffer_getPixel(Storage(i), c[1], c[2])
            /\ MaskMode => ~ ClipMask_getPixel(bb, cm[i], c[1], c[2]))
    /\ [][(/\ last'.op \in {"setPixel", "mask.setPixel"}
            /\ <<last'.x, last'.y>> \notin InRange(Storage(last'.self))) =>
               /\ last'.error = ""
               /\ bb' = bb /\ cm' = cm]_vars

\* C11 witness: setPixel(width, 0, v) was called on a buffer of two rows or
\* more, where v differs from the pixel (0, 1) whose bit has the index width.
C11_Witness ==
    /\ last.op = "setPixel" /\ ~ last.changed
    /\ LET this == bb[last.self]
       IN  /\ last.x = this._width /\ last.y = 0 /\ this._height >= 2
           /\ BitBuffer_getPixel(this, 0, 1) # last.v
           /\ ~ BitBuffer_getPixel(this, last.x, last.y)

-----------------------------------------------------------------------------
DimensionChecked == {"and", "copyFrom", "mask.intersectWith"}

\* C12: when the argument's width or height differs from the receiver's (also
\* when both hold the same number of pixels), and(other), copyFrom(other) and
\* ClipMask.intersectWith(other) throw a dimension-mismatch error and leave
\* every bit of the receiver and of the argument unchanged.
C12_DimensionMismatch ==
    [][(last'.op \in DimensionChecked) =>
        LET A == Storage(last'.self)
            B == Storage(last'.other)
        IN  (A._width # B._width \/ A._height # B._height) =>
                /\ last'.error \in
                      {"BitBuffer dimensions must match for AND operation",
                       "BitBuffer dimensions must match for copy operation"}
                /\ bb' = bb /\ cm' = cm]_vars

\* C12 witness: a call between objects of different shape and the same pixel
\* count (and so equally long byte arrays) whose pixels differ has thrown.
C12_Witness ==
    /\ last.op \in DimensionChecked /\ last.error # ""
    /\ LET A == Storage(last.self)
           B == Storage(last.other)
       IN  /\ A._numPixels = B._numPixels /\ A._width # B._width
           /\ A._buffer # B._buffer

\* A dimension mismatch in the width alone, and in the height alone, is seen too
C12_WidthOnly ==
    /\ last.op \in DimensionChecked /\ last.error # ""
    /\ Storage(last.self)._height = Storage(last.other)._height

C12_HeightOnly ==
    /\ last.op \in DimensionChecked /\ last.error # ""
    /\ Storage(last.self)._width = Storage(last.other)._width

-----------------------------------------------------------------------------
\* A number is a positive integer
PositiveInteger(p) == p[1] > 0 /\ \E k \in 1 .. p[1] : k * p[2] = p[1]

\* ceil(n / 8): the least count of bytes holding n bits
BytesFor(n) == CHOOSE k \in 0 .. n : 8 * k >= n /\ 8 * (k - 1) < n

\* C13: new BitBuffer(width, height, defaultValue) throws when width or height
\* is not a positive integer (zero, negative, fractional) and when defaultValue
\* is neither 0 nor 1; for positive integers and a default of 0 or 1 it succeeds
\* with a byte array of exactly ceil(width*height/8) bytes.
C13_ConstructorValidates ==
    (last.op = "new BitBuffer") =>
        IF /\ PositiveInteger(last.width) /\ PositiveInteger(last.height)
           /\ (NumEq(last.defaultValue, Num(0))
                  \/ NumEq(last.defaultValue, Num(1)))
        THEN /\ last.error = ""
             /\ Len(bb) = 1
             /\ LET n == NumInt(last.width) * NumInt(last.height)
                IN  DOMAIN bb[1]._buffer = 0 .. BytesFor(n) - 1
        ELSE last.error # "" /\ bb = << >>

\* C13 witness: a buffer of 9 pixels was created, in 2 bytes.
C13_Witness ==
    /\ last.op = "new BitBuffer" /\ last.error = ""
    /\ Len(bb) = 1 /\ bb[1]._numPixels = 9
    /\ Cardinality(DOMAIN bb[1]._buffer) = 2

\* round(p), for the exact fraction p
RoundedFraction(p) == RoundedQuotient(p[1], p[2])

\* The stored components C14 states
C14_Stored(r, g, b, a, alreadyPremultiplied) ==
    IF alreadyPremultiplied
    THEN [_r |-> RoundedFraction(r), _g |-> RoundedFraction(g),
          _b |-> RoundedFraction(b), _a |-> RoundedFraction(a)]
    ELSE [_r |-> RoundedQuotient(r[1] * a[1], r[2] * a[2] * 255),
          _g |-> RoundedQuotient(g[1] * a[1], g[2] * a[2] * 255),
          _b |-> RoundedQuotient(b[1] * a[1], b[2] * a[2] * 255),
          _a |-> RoundedFraction(a)]

\* C14: new Color(r,g,b,a,...) throws when any of the four is below 0 or above
\* 255; otherwise the stored components are round(r*a/255), round(g*a/255),
\* round(b*a/255), round(a) when not already premultiplied, and the rounded
\* inputs when already premultiplied.
C14_ConstructorStores ==
    (clast.op = "new Color") =>
        IF \E c \in {clast.r, clast.g, clast.b, clast.a} :
               c[1] < 0 \/ c[1] > 255 * c[2]
        THEN clast.error # ""
        ELSE /\ clast.error = ""
             /\ cur = C14_Stored(clast.r, clast.g, clast.b, clast.a,
                                 clast.isPremultiplied)

\* What |x - y| <= 1 says
WithinOne(x, y) == x - y <= 1 /\ y - x <= 1

\* C16: for integer r,g,b in 0..255 and a in 128..255, new Color(r,g,b,a) read
\* back through the getters gives r, g, b each within 1 of the input and alpha
\* exactly a.
C16_RoundTrip ==
    (/\ clast.op = "new Color" /\ ~ clast.isPremultiplied
     /\ \A c \in {clast.r, clast.g, clast.b, clast.a} :
            c[2] = 1 /\ c[1] \in 0 .. 255
     /\ clast.a[1] \in 128 .. 255) =>
        /\ clast.error = ""
        /\ WithinOne(Color_r(cur), clast.r[1])
        /\ WithinOne(Color_g(cur), clast.g[1])
        /\ WithinOne(Color_b(cur), clast.b[1])
        /\ Color_a(cur) = clast.a[1]

\* C16 witness: new Color(200, 100, 50, 128) was created and reads back with a
\* red that is not the input's.
C16_Witness ==
    /\ clast.op = "new Color" /\ ~ clast.isPremultiplied
    /\ <<clast.r, clast.g, clast.b, clast.a>>
          = <<Num(200), Num(100), Num(50), Num(128)>>
    /\ Color_r(cur) # 200

-----------------------------------------------------------------------------
\* C15: for masks A and B of equal size, the pixels of A after
\* A.intersectWith(B) are the pixels of B after B.intersectWith(A), both
\* started from the same A and B, and a second A.intersectWith(B) leaves A as
\* the first left it.
C15_IntersectCommutesAndRepeats ==
    [][(last'.op = "mask.intersectWith" /\ last'.error = "") =>
        LET A == last'.self
            B == last'.other
            swapped == ClipMask_intersectWith(bb, cm[B], cm[A])
            again == ClipMask_intersectWith(bb', cm'[A], cm'[B])
        IN  /\ swapped.error = ""
            /\ MaskPixels(bb', cm', A) = MaskPixels(swapped.heap, cm, B)
            /\ again.error = ""
            /\ again.heap = bb']_vars

\* C15 witness: A.intersectWith(B) changed A, which still holds a visible pixel
\* and differs from B.
C15_Witness ==
    /\ last.op = "mask.intersectWith" /\ last.error = "" /\ last.changed
    /\ last.self # last.other
    /\ MaskPixels(bb, cm, last.self) # MaskPixels(bb, cm, last.other)
    /\ \E c \in DOMAIN MaskPixels(bb, cm, last.self) :
           MaskPixels(bb, cm, last.self)[c]

-----------------------------------------------------------------------------
\* C17: for any colours new Color accepts, premultiplied or not, or that an
\* earlier call returned, blendOver does not throw, and withGlobalAlpha(factor)
\* does not throw for a factor in [0,1].
C17_OperationsAreTotal ==
    /\ (clast.op = "blendOver") => clast.error = ""
    /\ (clast.op = "withGlobalAlpha"
           /\ clast.factor >= 0 /\ clast.factor <= 4) => clast.error = ""

\* The straight channel C18 states for a stored component p
C18_Channel(this, p) ==
    IF this._a = 0 THEN 0
    ELSE IF this._a = 255 THEN p
    ELSE RoundedQuotient(p * 255, this._a)

\* C18: for every colour the program holds, created or returned by blendOver /
\* withGlobalAlpha, toRGBA() returns [r,g,b,a] with each channel 0 when the
\* stored alpha is 0, the stored component when it is 255, and
\* round(p*255/alpha) otherwise, a the stored alpha, and all four in 0..255.
C18_ToRGBA ==
    (clast.op \in {"new", "unobserved"}) =>
        /\ Color_toRGBA(cur) =
              <<C18_Channel(cur, cur._r), C18_Channel(cur, cur._g),
                C18_Channel(cur, cur._b), cur._a>>
        /\ \A k \in 1 .. 4 : Color_toRGBA(cur)[k] \in 0 .. 255

-----------------------------------------------------------------------------
\* C20: in every state reached through the public operations, isFull() is true
\* exactly when getPixel is true at every in-range coordinate, isEmpty() exactly
\* when it is false at every one, and a mask's hasClipping() exactly when some
\* in-range pixel is clipped.
C20_QueriesAgreeWithPixels ==
    \A i \in Refs :
        /\ BitBuffer_isFull(Storage(i)) <=> AllPixels(Storage(i), TRUE)
        /\ BitBuffer_isEmpty(Storage(i)) <=> AllPixels(Storage(i), FALSE)
        /\ MaskMode =>
              (ClipMask_hasClipping(bb, cm[i]) <=>
                  \E c \in DOMAIN MaskPixels(bb, cm, i) :
                      ~ ClipMask_getPixel(bb, cm[i], c[1], c[2]))

\* C20 witness: setPixel has set the last clear pixel of a buffer with pad
\* bits, which is now full.
C20_Witness ==
    /\ last.op = "setPixel" /\ last.changed /\ last.v
    /\ HasPadBits(bb[last.self])
    /\ BitBuffer_isFull(bb[last.self])
    /\ bb[last.self]._defaultValue = 0

-----------------------------------------------------------------------------
\* A value is an integer in 0..255
IsByte(v) == Len(v) = 2 /\ v[2] = 1 /\ v[1] \in 0 .. 255

HexDigitChars ==
    {"0", "1", "2", "3", "4", "5", "6", "7", "8", "9",
     "a", "b", "c", "d", "e", "f"}

\* The inputs C19 calls unknown or malformed: a non-string; a '#' string whose
\* digits are not 3, 6 or 8 hex digits; an 'rgb' string without an argument
\* list of three parts or more; any other string that is no colour name
Malformed(color) ==
    LET t == String_toLowerCase(String_trim(color.chars))
    IN  IF color.type # "string" THEN TRUE
        ELSE IF String_startsWith(t, <<"#">>)
        THEN \/ Len(t) - 1 \notin {3, 6, 8}
             \/ \E i \in 2 .. Len(t) : t[i] \notin HexDigitChars
        ELSE IF String_startsWith(t, <<"r", "g", "b">>)
        THEN \/ RgbMatch(t) = {}
             \/ Len(String_split(CHOOSE m \in RgbMatch(t) : TRUE, ",")) < 3
        ELSE t \notin DOMAIN ColorParser__namedColors

\* C19: parse never throws; an unknown or malformed input gives opaque black
\* (0,0,0,255); every result has r,g,b,a integers in 0..255 that new Color
\* accepts; and an input gives the same result whatever the cache holds.
C19_ParserTotalAndBlack ==
    (clast.op = "parse") =>
        /\ Malformed(clast.color) => clast.result = OpaqueBlack
        /\ \A c \in {clast.result.r, clast.result.g, clast.result.b,
                      clast.result.a} : IsByte(c)
        /\ Color_new(clast.result.r, clast.result.g, clast.result.b,
                     clast.result.a, FALSE).error = ""
        /\ clast.result = ColorParser_parse(<< >>, clast.color).result

-----------------------------------------------------------------------------
\* The stored components are integers in 0..255 and r, g, b are at most alpha
WellFormed(c) ==
    /\ \A p \in {c._r, c._g, c._b, c._a} : p \in 0 .. 255
    /\ c._r <= c._a /\ c._g <= c._a /\ c._b <= c._a

\* C21: every colour created with isPremultiplied false, and every colour
\* obtained from such colours by withGlobalAlpha (factor in [0,1]) and
\* blendOver calls, has stored r, g, b at most its stored alpha, all four
\* integers in 0..255.
C21_ComponentsAtMostAlpha ==
    /\ WellFormed(cur)
    /\ (clast.op \in {"withGlobalAlpha", "blendOver"} /\ clast.error = "") =>
           WellFormed(clast.result)

====
